---- MODULE Spec2Model ----
(***************************************************************************)
(* Hierarchical Actor Critic (HAC) agent of the Coach tutorial             *)
(* "3. Implementing a Hierarchical RL Graph": the HACDDPGAgent hooks       *)
(* (choose_action, update_transition_before_adding_to_replay_buffer,       *)
(* set_environment_parameters), the parameter classes and the preset.      *)
(* The rl_coach library that runs the agent (HRLGraphManager, LevelManager, *)
(* GoalsSpace, the hindsight replay memories, the phase setter) is not part *)
(* of the tutorial source; those parts follow the written specification.   *)
(*                                                                         *)
(* Levels are numbered 1 (top) .. num_levels (bottom).  Coordinates are in  *)
(* thousandths, probabilities in hundredths.                               *)
(***************************************************************************)
EXTENDS Integers, Sequences, FiniteSets, TLC

VARIABLES
    status,                       \* "unbuilt" | "built" | "error"
    error,                        \* "none" | "ConfigurationError" | "AttributeError"
    num_levels,                   \* len(agents_params)
    steps_per_level,              \* consecutive_steps_to_run_each_level
    agents_params,                \* level -> name of the algorithm parameter class
    in_action_space,              \* level -> "None" | "GoalsSpace"   (algorithm.in_action_space)
    goal_space,                   \* level -> "None" | "GoalsSpace"   (agent.spaces.goal)
    sub_goal_testing_rate,        \* level -> agent.sub_goal_testing_rate (0 before construction)
    should_test_current_sub_goal, \* graph_manager.should_test_current_sub_goal
    phase,                        \* agent.phase (the run phase, shared by all levels)
    exploration_phase,            \* level -> phase of agent.exploration_policy
    last_choice,                  \* what the choose_action call of the step in progress saw and queried
    cur,                          \* level that has control
    stage,                        \* "choose" | "observe" | "reset"
    remaining,                    \* level -> steps left in the current run of the level
    ran,                          \* level -> steps run since the upper level's action
    done,                         \* level -> terminal signal of the level's last step
    current_hrl_goal,             \* level -> goal received from the level above
    env,                          \* achieved_goal of the environment state
    env_done,                     \* game_over of the environment
    drawn,                        \* value drawn at the last top-level decision
    observed,                     \* values of the flag read since that decision
    writes,                       \* writes of the flag since (and including) that decision
    shape_in,                     \* reward shaping: the call's inputs
    shape_out,                    \* reward shaping: the returned transition
    her_ratio,                    \* hindsight_transitions_per_regular_transition
    her_episode,                  \* transitions of the current episode, in order
    her_hindsight,                \* index of original -> relabeled transitions made from it
    her_stored                    \* the episode as stored when it was closed

vars == << status, error, num_levels, steps_per_level, agents_params, in_action_space,
           goal_space,
           sub_goal_testing_rate, should_test_current_sub_goal, phase,
           exploration_phase, last_choice, cur, stage, remaining, ran, done,
           current_hrl_goal, env, env_done, drawn, observed, writes,
           shape_in, shape_out, her_ratio, her_episode, her_hindsight, her_stored >>

buildVars == << status, error, num_levels, steps_per_level, agents_params,
                in_action_space, goal_space,
                sub_goal_testing_rate >>
phaseVars == << phase, exploration_phase, last_choice >>
schedVars == << cur, stage, remaining, ran, done, current_hrl_goal, env, env_done >>
flagVars  == << should_test_current_sub_goal, drawn, observed, writes >>
shapeVars == << shape_in, shape_out >>
herVars   == << her_ratio, her_episode, her_hindsight, her_stored >>

----------------------------------------------------------------------------
(* Bounds *)
MaxLevels == 3
MaxSteps  == 2
MaxRatio  == 2
MaxEpisodeLen == 3

Levels == 1..MaxLevels

----------------------------------------------------------------------------
(* Parameter classes *)

\* attributes the algorithm parameter classes define, of those the agent reads
DDPGAlgorithmParameters == [name |-> "DDPGAlgorithmParameters"]

HACDDPGAlgorithmParameters ==
    [name |-> "HACDDPGAlgorithmParameters", sub_goal_testing_rate |-> 50, time_limit |-> 40]

AlgorithmClasses == {"DDPGAlgorithmParameters", "HACDDPGAlgorithmParameters"}

AlgorithmOf(cls) ==
    IF cls = "HACDDPGAlgorithmParameters" THEN HACDDPGAlgorithmParameters
    ELSE DDPGAlgorithmParameters

HasAttr(obj, attr) == attr \in DOMAIN obj

\* HACDDPGAgentParameters().algorithm
HACDDPGAgentParameters == "DDPGAlgorithmParameters"

\* time_limit of the preset: the environment's step budget
env_time_limit == 1000

----------------------------------------------------------------------------
(* Goal space of the preset *)

distance_from_goal_threshold == << 75, 75, 750 >>
default_reward == -1
goal_reaching_reward == 0

Abs(x) == IF x < 0 THEN -x ELSE x

\* lambda goal, state: np.abs(goal - state)
distance_from_goal(goal, state) == [i \in 1..3 |-> Abs(goal[i] - state[i])]

Reached(goal, state) ==
    \A i \in 1..3 : distance_from_goal(goal, state)[i] <= distance_from_goal_threshold[i]

get_reward_for_goal_and_state(goal, state) ==
    [reward  |-> IF Reached(goal, state) THEN goal_reaching_reward ELSE default_reward,
     reached |-> Reached(goal, state)]

\* achieved goals the runs move through, and the goals the levels hand down
RunPoints == { <<0, 0, 0>>, <<76, 0, 0>> }

----------------------------------------------------------------------------
(* HACDDPGAgent.update_transition_before_adding_to_replay_buffer *)

GoalStepKeepReward(t, is_highest, hrl_goal) ==
    IF ~is_highest
    THEN [t EXCEPT !.desired_goal = hrl_goal,
                   !.game_over = t.game_over
                                 \/ get_reward_for_goal_and_state(hrl_goal, t.next_state).reached]
    ELSE t

GoalStepDropTerminal(t, is_highest, hrl_goal) ==
    IF ~is_highest
    THEN [t EXCEPT !.desired_goal = hrl_goal,
                   !.reward = get_reward_for_goal_and_state(hrl_goal, t.next_state).reward,
                   !.game_over = get_reward_for_goal_and_state(hrl_goal, t.next_state).reached]
    ELSE t

\* "deal with goals given from a higher level agent"
GoalStep(t, is_highest, hrl_goal) ==
    IF ~is_highest
    THEN [t EXCEPT !.desired_goal = hrl_goal,
                   !.reward = get_reward_for_goal_and_state(hrl_goal, t.next_state).reward,
                   !.game_over = t.game_over
                                 \/ get_reward_for_goal_and_state(hrl_goal, t.next_state).reached]
    ELSE t

TestStepIgnoreFlag(t, is_lowest, flag, algorithm) ==
    IF ~is_lowest
    THEN IF ~get_reward_for_goal_and_state(t.action, t.next_state).reached
         THEN [t EXCEPT !.reward = -algorithm.time_limit]
         ELSE t
    ELSE t

\* "each level tests its own generated sub goals"
TestStep(t, is_lowest, flag, algorithm) ==
    IF ~is_lowest /\ flag
    THEN IF ~get_reward_for_goal_and_state(t.action, t.next_state).reached
         THEN [t EXCEPT !.reward = -algorithm.time_limit]
         ELSE t
    ELSE t

update_transition_before_adding_to_replay_buffer(t, is_highest, is_lowest, hrl_goal, flag, algorithm) ==
    TestStep(GoalStep(t, is_highest, hrl_goal), is_lowest, flag, algorithm)

----------------------------------------------------------------------------
(* HACDDPGAgent.choose_action *)

RunPhases == {"HEATUP", "TRAIN", "TEST"}

\* np.random.rand(), in hundredths
Rand == {0, 49, 50, 99}

WritesFlagAtEveryLevel(is_highest) == TRUE

\* "if self.ap.is_a_highest_level_agent": whether the call writes the flag
WritesFlag(is_highest) == is_highest

\* the flag after the draw
DrawFlag(is_highest, old, rand, rate) ==
    IF WritesFlag(is_highest) THEN rand < rate ELSE old

SelectPhaseNoRestore(agent_phase, flag, policy_phase) ==
    IF agent_phase = "TRAIN" /\ flag THEN "TEST" ELSE policy_phase

\* the exploration policy's phase after lines 98-102
SelectPhase(agent_phase, flag, policy_phase) ==
    IF agent_phase = "TRAIN"
    THEN IF flag THEN "TEST" ELSE agent_phase
    ELSE policy_phase

----------------------------------------------------------------------------
(* HACDDPGAgent.__init__ and set_environment_parameters; building the graph *)

\* first level whose construction raises, 0 if none does
FirstFailing(n, params) ==
    LET bad == { l \in 1..n : ~HasAttr(AlgorithmOf(params[l]), "sub_goal_testing_rate") }
    IN  IF bad = {} THEN 0 ELSE CHOOSE l \in bad : \A m \in bad : l <= m

\* sub_goal_testing_rate of each level after the constructors ran
ConstructedRates(n, params) ==
    LET f == FirstFailing(n, params)
    IN  [l \in Levels |->
            IF l <= n /\ (f = 0 \/ l < f)
            THEN AlgorithmOf(params[l]).sub_goal_testing_rate ELSE 0]

SetEnvKeepInGoal(is_highest, in_goal, action_space) == in_goal

\* agent.spaces.goal after set_environment_parameters, "AttributeError" if it raises
set_environment_parameters(is_highest, in_goal, action_space) ==
    IF is_highest
    THEN IF action_space = "None" THEN "AttributeError" ELSE action_space
    ELSE IF in_goal = "None" THEN "AttributeError" ELSE in_goal

SpaceOf(configured) == IF configured THEN "GoalsSpace" ELSE "None"

\* the action space of a level is the goal space the level below takes its goals in
ActionSpaceOf(l, n, in_spaces) ==
    IF l < n THEN SpaceOf(in_spaces[l + 1]) ELSE "EnvActionSpace"

BuiltGoals(n, in_spaces) ==
    [l \in Levels |->
        IF l <= n
        THEN set_environment_parameters(l = 1, SpaceOf(in_spaces[l]),
                                        ActionSpaceOf(l, n, in_spaces))
        ELSE "None"]

AcceptsAnyHierarchy(n) == FALSE

\* a hierarchy needs at least two levels
RejectsHierarchy(n) == n < 2

NoLevel == [l \in Levels |-> "none"]

\* no goal (the top level receives none)
NoGoal == << >>

\* the bottom level's action is an environment command (the pendulum's torque)
EnvAction == << 0 >>

NoChoice == [level |-> 0, agent_phase |-> "HEATUP", flag |-> FALSE,
             prev_policy_phase |-> "HEATUP", policy_phase |-> "HEATUP"]

NoShape == [valid |-> FALSE]

Built(n, k, params, in_spaces) ==
    /\ status' = "built"
    /\ error' = "none"
    /\ sub_goal_testing_rate' = ConstructedRates(n, params)
    /\ goal_space' = BuiltGoals(n, in_spaces)
    /\ steps_per_level' = k

Failed(n, params, kind) ==
    /\ status' = "error"
    /\ error' = kind
    /\ sub_goal_testing_rate' = IF kind = "ConfigurationError"
                                THEN [l \in Levels |-> 0]
                                ELSE ConstructedRates(n, params)
    /\ UNCHANGED << goal_space, steps_per_level >>

\* HRLGraphManager(agents_params, ..., consecutive_steps_to_run_each_level) and create_graph
CreateGraph(n, k, params, in_spaces) ==
    /\ status = "unbuilt"
    /\ num_levels' = n
    /\ agents_params' = [l \in Levels |-> IF l <= n THEN params[l] ELSE "none"]
    /\ in_action_space' = [l \in Levels |-> IF l <= n THEN SpaceOf(in_spaces[l]) ELSE "None"]
    /\ IF RejectsHierarchy(n)
       THEN Failed(n, params, "ConfigurationError")
       ELSE IF FirstFailing(n, params) # 0
       THEN Failed(n, params, "AttributeError")
       ELSE IF \E l \in 1..n : BuiltGoals(n, in_spaces)[l] = "AttributeError"
       THEN Failed(n, params, "AttributeError")
       ELSE Built(n, k, params, in_spaces)
    /\ UNCHANGED << phaseVars, schedVars, flagVars, shapeVars, herVars >>

Build ==
    \E n \in 1..MaxLevels, k \in 1..MaxSteps :
        \E params \in [1..n -> AlgorithmClasses], in_spaces \in [1..n -> BOOLEAN] :
            CreateGraph(n, k, params, in_spaces)

----------------------------------------------------------------------------
(* The run: nested stepping of the levels *)

RawRewards == {-40, -1, 0, 7}

RunsUntilStepsEnd(rem, terminal) == rem = 0

\* the lower level hands control back when its steps are used up or it signals terminal
ReturnsControl(rem, terminal) == rem = 0 \/ terminal

\* the transition a level is about to observe
RawTransition(l, raw) ==
    [desired_goal |-> NoGoal,
     action       |-> IF l < num_levels THEN current_hrl_goal[l + 1] ELSE EnvAction,
     reward       |-> raw,
     next_state   |-> env,
     game_over    |-> env_done]

\* choose_action of level l, then the start of the lower level's run or the environment step
ChooseAction(l) ==
    /\ status = "built" /\ cur = l /\ stage = "choose"
    /\ \E rand \in Rand :
         LET flag   == DrawFlag(l = 1, should_test_current_sub_goal, rand,
                                sub_goal_testing_rate[l])
             policy == SelectPhase(phase, flag, exploration_phase[l])
         IN  /\ should_test_current_sub_goal' = flag
             /\ exploration_phase' = [exploration_phase EXCEPT ![l] = policy]
             /\ last_choice' = [level |-> l, agent_phase |-> phase, flag |-> flag,
                                prev_policy_phase |-> exploration_phase[l],
                                policy_phase |-> policy]
             /\ drawn' = IF l = 1 THEN flag ELSE drawn
             /\ writes' = IF l = 1 THEN 1
                          ELSE IF WritesFlag(FALSE) THEN writes + 1 ELSE writes
             /\ observed' = IF l = 1 THEN {}
                            ELSE IF phase = "TRAIN" THEN observed \cup {flag} ELSE observed
    /\ IF l < num_levels
       THEN /\ \E g \in RunPoints :
                 current_hrl_goal' = [current_hrl_goal EXCEPT ![l + 1] = g]
            /\ remaining' = [remaining EXCEPT ![l + 1] = steps_per_level]
            /\ ran' = [ran EXCEPT ![l + 1] = 0]
            /\ done' = [done EXCEPT ![l + 1] = FALSE]
            /\ cur' = l + 1
            /\ UNCHANGED << stage, env, env_done >>
       ELSE /\ \E e \in RunPoints, d \in BOOLEAN : env' = e /\ env_done' = d
            /\ stage' = "observe"
            /\ UNCHANGED << cur, remaining, ran, done, current_hrl_goal >>
    /\ UNCHANGED << buildVars, phase, shapeVars, herVars >>

\* observe of level l: the transition is shaped, the step is counted, control moves
Observe(l) ==
    /\ status = "built" /\ cur = l /\ stage = "observe"
    /\ \E raw \in RawRewards :
         LET out == update_transition_before_adding_to_replay_buffer(
                        RawTransition(l, raw), l = 1, l = num_levels, current_hrl_goal[l],
                        should_test_current_sub_goal, AlgorithmOf(agents_params[l]))
         IN  /\ done' = [done EXCEPT ![l] = out.game_over]
             /\ IF l = 1
                THEN /\ stage' = IF out.game_over THEN "reset" ELSE "choose"
                     /\ UNCHANGED << cur, remaining, ran >>
                ELSE /\ remaining' = [remaining EXCEPT ![l] = remaining[l] - 1]
                     /\ ran' = [ran EXCEPT ![l] = ran[l] + 1]
                     /\ IF ReturnsControl(remaining[l] - 1, out.game_over)
                        THEN cur' = l - 1 /\ stage' = "observe"
                        ELSE cur' = l /\ stage' = "choose"
    /\ observed' = IF l < num_levels THEN observed \cup {should_test_current_sub_goal}
                   ELSE observed
    /\ last_choice' = NoChoice
    /\ UNCHANGED << buildVars, phase, exploration_phase, current_hrl_goal, env, env_done,
                    should_test_current_sub_goal, drawn, writes, shapeVars, herVars >>

\* the top level's episode ended: the environment is reset
ResetEpisode ==
    /\ status = "built" /\ cur = 1 /\ stage = "reset"
    /\ \E e \in RunPoints : env' = e
    /\ env_done' = FALSE
    /\ stage' = "choose"
    /\ UNCHANGED << buildVars, phaseVars, cur, remaining, ran, done, current_hrl_goal,
                    flagVars, shapeVars, herVars >>

\* the run phase of the agents changes; the exploration policies follow
SetPhase(p) ==
    /\ status = "built" /\ p # phase
    /\ phase' = p
    /\ exploration_phase' = [l \in Levels |-> p]
    /\ UNCHANGED << buildVars, last_choice, schedVars, flagVars, shapeVars, herVars >>

Choose  == \E l \in Levels : ChooseAction(l)
Observes == \E l \in Levels : Observe(l)
ChangePhase == \E p \in RunPhases : SetPhase(p)

Unbuilt ==
    /\ status = "unbuilt" /\ error = "none"
    /\ num_levels = 0 /\ steps_per_level = 0
    /\ agents_params = NoLevel
    /\ in_action_space = [l \in Levels |-> "None"]
    /\ goal_space = [l \in Levels |-> "None"]
    /\ sub_goal_testing_rate = [l \in Levels |-> 0]
    /\ should_test_current_sub_goal = FALSE
    /\ phase = "HEATUP"
    /\ exploration_phase = [l \in Levels |-> "HEATUP"]
    /\ last_choice = NoChoice
    /\ cur = 1 /\ stage = "choose"
    /\ remaining = [l \in Levels |-> 0]
    /\ ran = [l \in Levels |-> 0]
    /\ done = [l \in Levels |-> FALSE]
    /\ current_hrl_goal = [l \in Levels |-> NoGoal]
    /\ env = <<0, 0, 0>> /\ env_done = FALSE
    /\ drawn = FALSE /\ observed = {} /\ writes = 0
    /\ shape_in = NoShape /\ shape_out = NoShape

Init ==
    /\ Unbuilt
    /\ her_ratio = 0 /\ her_episode = <<>> /\ her_hindsight = <<>> /\ her_stored = <<>>

Next == Build \/ Choose \/ Observes \/ ResetEpisode \/ ChangePhase

Spec == Init /\ [][Next]_vars

\* the control loop keeps stepping: a single thread that runs whichever step is due
Step == Choose \/ Observes \/ ResetEpisode

\* the stepping alone, in the run phase the graph starts in
FairSpec == Init /\ [][Build \/ Step]_vars /\ WF_vars(Step)

----------------------------------------------------------------------------
(* Reward shaping on its own: the inputs of one call are drawn, the call is applied *)

\* coordinates on both sides of each threshold
ShapePoints == { <<x, y, z>> : x \in {0, 75, 76}, y \in {0, 76}, z \in {0, 750, 751} }

ShapeInit ==
    \E n \in 2..MaxLevels :
      \E l \in 1..n :
        /\ status = "built" /\ error = "none"
        /\ num_levels = n /\ steps_per_level = 1
        /\ agents_params = [m \in Levels |-> IF m <= n THEN "HACDDPGAlgorithmParameters"
                                              ELSE "none"]
        /\ in_action_space = [m \in Levels |-> IF 2 <= m /\ m <= n THEN "GoalsSpace"
                                                ELSE "None"]
        /\ goal_space = [m \in Levels |-> IF m <= n THEN "GoalsSpace" ELSE "None"]
        /\ sub_goal_testing_rate = [m \in Levels |-> IF m <= n THEN 50 ELSE 0]
        /\ should_test_current_sub_goal \in BOOLEAN
        /\ drawn = should_test_current_sub_goal /\ observed = {} /\ writes = 1
        /\ phase = "TRAIN"
        /\ exploration_phase = [m \in Levels |-> "TRAIN"]
        /\ last_choice = NoChoice
        /\ cur = l /\ stage = "observe"
        /\ remaining = [m \in Levels |-> IF 2 <= m /\ m <= l THEN 1 ELSE 0]
        /\ ran = [m \in Levels |-> 0]
        /\ done = [m \in Levels |-> FALSE]
        /\ \E desired \in ShapePoints, action \in ShapePoints :
             current_hrl_goal =
                 [m \in Levels |-> IF m = l /\ l > 1 THEN desired
                                   ELSE IF m = l + 1 /\ l < n THEN action
                                   ELSE IF 2 <= m /\ m < l THEN <<0, 0, 0>>
                                   ELSE NoGoal]
        /\ env \in ShapePoints /\ env_done \in BOOLEAN
        /\ shape_in = NoShape /\ shape_out = NoShape
        /\ her_ratio = 0 /\ her_episode = <<>> /\ her_hindsight = <<>> /\ her_stored = <<>>

\* one call of update_transition_before_adding_to_replay_buffer by level l
ShapeTransition(l) ==
    /\ status = "built" /\ cur = l /\ stage = "observe"
    /\ ~shape_out.valid
    /\ \E raw \in RawRewards :
         /\ shape_in' = [valid |-> TRUE, level |-> l,
                         is_highest |-> (l = 1), is_lowest |-> (l = num_levels),
                         hrl_goal |-> current_hrl_goal[l],
                         flag |-> should_test_current_sub_goal,
                         t |-> RawTransition(l, raw)]
         /\ shape_out' = [valid |-> TRUE,
                          t |-> update_transition_before_adding_to_replay_buffer(
                                    RawTransition(l, raw), l = 1, l = num_levels,
                                    current_hrl_goal[l], should_test_current_sub_goal,
                                    AlgorithmOf(agents_params[l]))]
    /\ UNCHANGED << buildVars, phaseVars, schedVars, flagVars, herVars >>

ShapeNext == \E l \in Levels : ShapeTransition(l)

ShapeSpec == ShapeInit /\ [][ShapeNext]_vars

\* first component of reward_for(desired_goal, next_state) for the shaped call
GoalReward == get_reward_for_goal_and_state(shape_in.hrl_goal, shape_in.t.next_state).reward

\* the level's own emitted action, the delegated subgoal, is not reached by next_state
DelegatedMissed ==
    \E i \in 1..3 :
        Abs(shape_in.t.action[i] - shape_in.t.next_state[i]) > distance_from_goal_threshold[i]

PenaltyCase == ~shape_in.is_lowest /\ shape_in.flag /\ DelegatedMissed

\* C2 as stated: at every non-top level, for every value of the flag and every raw
\* reward, the reward after shaping equals the goal reward for the desired goal.
C2_RewardIsGoalReward ==
    (shape_out.valid /\ ~shape_in.is_highest) => shape_out.t.reward = GoalReward

\* C2 amended: at every non-top level the reward after shaping equals the goal reward
\* for the desired goal, whatever the raw reward, except at a middle level under
\* subgoal testing whose delegated subgoal was missed, where it is -time_limit.
C2_RewardIsGoalRewardOrPenalty ==
    (shape_out.valid /\ ~shape_in.is_highest) =>
        shape_out.t.reward = IF PenaltyCase THEN -40 ELSE GoalReward

C2_Witness ==
    /\ shape_out.valid /\ ~shape_in.is_highest /\ ~shape_in.is_lowest
    /\ shape_in.flag /\ ~DelegatedMissed
    /\ shape_in.t.reward = 7 /\ GoalReward = -1 /\ shape_out.t.reward = -1

\* C3: shaping overwrites the reward with exactly -time_limit if and only if the
\* level is not the bottom level, the flag is true and the level's own emitted action
\* is not reached by next_state; at a middle level the penalty overrides the goal
\* reward of step 1; in every other case no penalty is applied.
C3_PenaltyExactlyWhenTestedAndMissed ==
    shape_out.valid =>
        shape_out.t.reward =
            IF PenaltyCase THEN -HACDDPGAlgorithmParameters.time_limit
            ELSE IF shape_in.is_highest THEN shape_in.t.reward
            ELSE GoalReward

C3_Witness ==
    /\ shape_out.valid /\ ~shape_in.is_highest /\ ~shape_in.is_lowest
    /\ PenaltyCase /\ GoalReward = 0 /\ shape_out.t.reward = -40

\* C4: at a non-top level terminal after shaping is true exactly when it was true
\* before or the desired goal is reached by next_state; at the top level, and in the
\* penalty step, terminal does not change.
C4_TerminalOrGoalReached ==
    shape_out.valid =>
        shape_out.t.game_over =
            IF shape_in.is_highest THEN shape_in.t.game_over
            ELSE \/ shape_in.t.game_over
                 \/ \A i \in 1..3 :
                       Abs(shape_in.hrl_goal[i] - shape_in.t.next_state[i])
                           <= distance_from_goal_threshold[i]

C4_Witness ==
    /\ shape_out.valid /\ ~shape_in.is_highest
    /\ ~shape_in.t.game_over /\ shape_out.t.game_over
    /\ GoalReward = 0 /\ PenaltyCase

----------------------------------------------------------------------------
(* Hindsight replay memory of one level, goal selection method Future *)

RECURSIVE HindsightChoices(_, _, _)

FutureGoalsFromOwnStep(episode, i) ==
    { episode[j].next_state : j \in i..Len(episode) }

\* achieved states of the transitions later in the same episode
FutureGoals(episode, i) ==
    { episode[j].next_state : j \in (i + 1)..Len(episode) }

\* the transition with its goal replaced, reward and terminal recomputed
Relabel(t, goal) ==
    [t EXCEPT !.goal = goal,
              !.reward = get_reward_for_goal_and_state(goal, t.next_state).reward,
              !.game_over = get_reward_for_goal_and_state(goal, t.next_state).reached]

\* what relabeling can make of the i-th transition: ratio relabeled copies
HindsightFor(episode, i, ratio) ==
    IF FutureGoals(episode, i) = {}
    THEN { << >> }
    ELSE { [k \in 1..ratio |-> Relabel(episode[i], goals[k])] :
               goals \in [1..ratio -> FutureGoals(episode, i)] }

\* the relabeled transitions of the first i transitions of the episode
HindsightChoices(episode, i, ratio) ==
    IF i = 0 THEN { << >> }
    ELSE { Append(h, x) : h \in HindsightChoices(episode, i - 1, ratio),
                          x \in HindsightFor(episode, i, ratio) }

HerInit ==
    /\ Unbuilt
    /\ her_ratio \in 1..MaxRatio
    /\ her_episode = <<>> /\ her_hindsight = <<>> /\ her_stored = <<>>

\* add(transition): appended to the episode in order
HerStore ==
    /\ her_stored = <<>>
    /\ Len(her_episode) < MaxEpisodeLen
    /\ \E goal \in RunPoints, next \in RunPoints :
         her_episode' = Append(her_episode,
             [goal       |-> goal,
              state      |-> IF her_episode = <<>> THEN <<0, 0, 0>>
                             ELSE her_episode[Len(her_episode)].next_state,
              next_state |-> next,
              reward     |-> get_reward_for_goal_and_state(goal, next).reward,
              game_over  |-> get_reward_for_goal_and_state(goal, next).reached])
    /\ UNCHANGED << buildVars, phaseVars, schedVars, flagVars, shapeVars,
                    her_ratio, her_hindsight, her_stored >>

\* the episode ends: its transitions are stored and relabeled
HerStoreEpisode ==
    /\ her_stored = <<>> /\ her_episode # <<>>
    /\ her_stored' = her_episode
    /\ her_hindsight' \in HindsightChoices(her_episode, Len(her_episode), her_ratio)
    /\ UNCHANGED << buildVars, phaseVars, schedVars, flagVars, shapeVars,
                    her_ratio, her_episode >>

\* the next episode begins
HerNewEpisode ==
    /\ her_stored # <<>>
    /\ her_episode' = <<>> /\ her_hindsight' = <<>> /\ her_stored' = <<>>
    /\ UNCHANGED << buildVars, phaseVars, schedVars, flagVars, shapeVars, her_ratio >>

HerNext == HerStore \/ HerStoreEpisode \/ HerNewEpisode

HerSpec == HerInit /\ [][HerNext]_vars

EpisodeClosed == her_stored # <<>>

RelabeledWell(i) ==
    \A k \in 1..Len(her_hindsight[i]) :
        LET h == her_hindsight[i][k] IN
        /\ \E j \in 1..Len(her_stored) : h.goal = her_stored[j].next_state
        /\ h.state = her_stored[i].state /\ h.next_state = her_stored[i].next_state
        /\ h.game_over = (\A d \in 1..3 : Abs(h.goal[d] - h.next_state[d])
                                               <= distance_from_goal_threshold[d])
        /\ h.reward = IF h.game_over THEN goal_reaching_reward ELSE default_reward

----------------------------------------------------------------------------
(* Properties of the run *)

IsBuilt == status = "built"

\* C1: in a hierarchy of at least two levels the flag should_test_current_sub_goal is
\* written only by the top level's choose_action, once per top-level decision, and
\* every read by a lower level's choose_action or by reward shaping (the top level's
\* own transition included) before the next top-level decision sees the drawn value.
C1_FlagFixedDuringNestedRun ==
    IsBuilt => /\ should_test_current_sub_goal = drawn
               /\ observed \subseteq {drawn}
               /\ writes <= 1
               /\ (writes = 0 => cur = 1 /\ stage = "choose" /\ observed = {})

C1_Witness ==
    /\ IsBuilt /\ num_levels = 3
    /\ cur = 1 /\ stage # "observe"
    /\ ran[2] > 0 /\ ran[3] > 0
    /\ drawn /\ observed = {TRUE} /\ writes = 1

\* C5: at every choose_action call the exploration policy that is queried is in TEST
\* phase if the agent's run phase is TRAIN and the flag is true, and otherwise in the
\* agent's own run phase; a forced TEST phase does not persist.
C5_QueriedPhase ==
    last_choice.level # 0 =>
        last_choice.policy_phase =
            IF last_choice.agent_phase = "TRAIN" /\ last_choice.flag
            THEN "TEST" ELSE last_choice.agent_phase

C5_Witness ==
    /\ last_choice.level > 1
    /\ last_choice.agent_phase = "TRAIN" /\ ~last_choice.flag
    /\ last_choice.prev_policy_phase = "TEST"
    /\ last_choice.policy_phase = "TRAIN"

\* C6: after each upper-level action the level below runs until steps_per_level steps
\* have run or it signals terminal, whichever comes first: it never runs more than
\* steps_per_level steps, the upper level has control only when no steps remain or
\* terminal was signalled, and control always eventually returns to the upper level.
C6_NestedStepping ==
    /\ [](IsBuilt =>
            \A l \in 2..num_levels :
                /\ ran[l] <= steps_per_level
                /\ ran[l] + remaining[l] \in {0, steps_per_level}
                /\ (cur < l => remaining[l] = 0 \/ done[l])
                /\ (cur < l /\ ran[l] > 0 /\ ~done[l] => ran[l] = steps_per_level)
                /\ (done[l] => cur < l))
    /\ \A l \in 2..MaxLevels : (IsBuilt /\ cur = l) ~> (cur = l - 1)

C6_Witness ==
    /\ IsBuilt /\ steps_per_level = 2
    /\ cur = 1 /\ stage = "observe"
    /\ done[2] /\ ran[2] = 1 /\ remaining[2] = 1
    /\ ~env_done

\* C8 as stated: a level has a goal space if and only if it is not the top level, and
\* a top level with a goal space configured is rejected at build time.
C8_GoalSpaceIffNotTop ==
    /\ IsBuilt => \A l \in 1..num_levels : (goal_space[l] # "None") <=> (l # 1)
    /\ (status # "unbuilt" /\ num_levels >= 2 /\ in_action_space[1] = "GoalsSpace")
            => status = "error"

\* C8 amended: in every built hierarchy every level has a goal space, the top level
\* included (its own action space, the goal space of the level below), and every
\* non-top level has one configured.
C8_EveryLevelHasGoalSpace ==
    IsBuilt =>
        /\ \A l \in 1..num_levels : goal_space[l] = "GoalsSpace"
        /\ \A l \in 2..num_levels : in_action_space[l] = "GoalsSpace"

C8_Witness ==
    /\ IsBuilt
    /\ in_action_space[1] = "None"
    /\ goal_space[1] = "GoalsSpace"

\* C9: a hierarchy with fewer than two levels is rejected at build time with a
\* configuration error; no single agent that is both highest and lowest level draws
\* the flag, queries its exploration policy or moves control.
C9_SingleLevelRejected ==
    /\ IsBuilt => num_levels >= 2
    /\ (status # "unbuilt" /\ num_levels < 2) =>
            /\ status = "error" /\ error = "ConfigurationError"
            /\ writes = 0 /\ last_choice = NoChoice
            /\ stage = "choose" /\ \A l \in Levels : sub_goal_testing_rate[l] = 0

C9_Witness ==
    status = "error" /\ error = "ConfigurationError" /\ num_levels = 1

\* C10: an agent built from a default HACDDPGAgentParameters() carries
\* sub_goal_testing_rate = 0.5 and time_limit = 40: its construction reads the rate
\* and a missed subgoal under test is penalised with -40.
C10_DefaultParametersCarryHAC ==
    \A l \in Levels :
        ( /\ status # "unbuilt" /\ num_levels >= 2 /\ l <= num_levels
          /\ agents_params[l] = HACDDPGAgentParameters
          /\ \A m \in 1..(l - 1) : agents_params[m] # HACDDPGAgentParameters )
        => /\ sub_goal_testing_rate[l] = 50
           /\ HasAttr(AlgorithmOf(agents_params[l]), "time_limit")
           /\ AlgorithmOf(agents_params[l]).time_limit = 40
           /\ AlgorithmOf(agents_params[l]).time_limit # env_time_limit

====
